---- MODULE Spec2Model ----
(***************************************************************************)
(* Model of verification/verify_batch_tab.py: one run of verify_batch_tab  *)
(* as a sequence of blocking library calls, each of which either returns   *)
(* or raises, inside  with sync_playwright() / try / except / finally.     *)
(***************************************************************************)
EXTENDS Integers, Sequences, FiniteSets, TLC

\* Largest number of elements the fallback locator can match in the model.
MaxInputs == 2

\* States a matched <input> can be in; fill() needs visible, enabled, editable.
ElementStates == {"visible", "hidden", "disabled", "readonly"}

VARIABLES
    pc,             \* position of the run in the script
    reachable,      \* something is listening on http://localhost:3000
    fixturePresent, \* test_image.png exists in the working directory
    primaryVisible, \* input[value='1'] (first match) is visible
    inputs,         \* elements matching .space-y-1 input[type='number']
    launched,       \* p.chromium.launch() returned a browser
    pageCreated,    \* browser.new_page() returned a page
    closeCalls,     \* number of browser.close() calls
    stopped,        \* the sync_playwright() context has been exited
    calls,          \* log of library calls: [op, ok]
    visResult,      \* what width_input.is_visible() returned
    allResult,      \* len of what locator(...).all() returned, -1 before
    fills,          \* fill() calls that completed: [target, index, value]
    shots,          \* screenshots captured: arguments of page.screenshot
    writes,         \* number of writes of each screenshot file
    pending,        \* an exception is propagating out of the function
    exitStatus      \* process exit status, -1 while running

vars == <<pc, reachable, fixturePresent, primaryVisible, inputs, launched,
          pageCreated, closeCalls, stopped, calls, visResult, allResult,
          fills, shots, writes, pending, exitStatus>>

env == <<reachable, fixturePresent, primaryVisible, inputs>>

\* Line 62: the success screenshot path.
screenshot_path_swapped == "verification/error.png"
screenshot_path == "verification/batch_tab_verified.png"

\* Line 68: the error screenshot path.
error_path == "verification/error.png"

Paths == {"verification/batch_tab_verified.png", "verification/error.png"}

\* Lines 63 and 68: page.screenshot is called with path only, so full_page
\* keeps the library default (False: viewport only).
ScreenshotArgsFullPage(path) == [path |-> path, full_page |-> TRUE]
ScreenshotArgs(path) == [path |-> path, full_page |-> FALSE]

\* Locator.fill waits for the element to be visible, enabled and editable
\* and raises on timeout otherwise.
Actionable(st) == st = "visible"

\* Lines 10, 66: an exception raised in the try body transfers to the handler.
OnRaiseContinue(next) == next
OnRaise(next) == "except"

\* Lines 46-49: branch on width_input.is_visible().
AfterIsVisible(v) == IF v THEN "fill_primary" ELSE "locator_all"

\* Lines 47-48, 57-59: after the primary fill the else branch is skipped.
AfterFillPrimaryFallThrough == "locator_all"
AfterFillPrimary == "sleep"

\* Lines 52-56: branch on the truthiness of the list returned by .all().
AfterLocatorAllOffByOne(n) == IF n > 1 THEN "fill_fallback" ELSE "sleep"
AfterLocatorAllStrict(n) == IF n > 0 THEN "fill_fallback" ELSE "except"
AfterLocatorAll(n) == IF n > 0 THEN "fill_fallback" ELSE "sleep"

\* A call of the try body (lines 10-64): logged, then next statement or handler.
TryStep(op, ok, next) ==
    /\ calls' = Append(calls, [op |-> op, ok |-> ok])
    /\ pc' = IF ok THEN next ELSE OnRaise(next)

SeqsUpTo(S, n) == UNION {[1..k -> S] : k \in 0..n}

Init ==
    /\ pc = "launch"
    /\ reachable \in BOOLEAN
    /\ fixturePresent \in BOOLEAN
    /\ primaryVisible \in BOOLEAN
    /\ inputs \in SeqsUpTo(ElementStates, MaxInputs)
    /\ launched = FALSE
    /\ pageCreated = FALSE
    /\ closeCalls = 0
    /\ stopped = FALSE
    /\ calls = <<>>
    /\ visResult = "none"
    /\ allResult = -1
    /\ fills = <<>>
    /\ shots = <<>>
    /\ writes = [p \in Paths |-> 0]
    /\ pending = FALSE
    /\ exitStatus = -1

\* Line 7: browser = p.chromium.launch()
Launch ==
    /\ pc = "launch"
    /\ \E ok \in BOOLEAN :
        /\ calls' = Append(calls, [op |-> "launch", ok |-> ok])
        /\ launched' = ok
        /\ pending' = ~ok
        /\ pc' = IF ok THEN "new_page" ELSE "with_exit"
    /\ UNCHANGED <<env, pageCreated, closeCalls, stopped, visResult,
                   allResult, fills, shots, writes, exitStatus>>

\* Line 8: page = browser.new_page(), before the try statement.
NewPage ==
    /\ pc = "new_page"
    /\ \E ok \in BOOLEAN :
        /\ calls' = Append(calls, [op |-> "new_page", ok |-> ok])
        /\ pageCreated' = ok
        /\ pending' = ~ok
        /\ pc' = IF ok THEN "goto" ELSE "with_exit"
    /\ UNCHANGED <<env, launched, closeCalls, stopped, visResult,
                   allResult, fills, shots, writes, exitStatus>>

untouched == <<env, launched, pageCreated, closeCalls, stopped, visResult,
               allResult, fills, shots, writes, pending, exitStatus>>

\* Line 12: page.goto("http://localhost:3000")
Goto ==
    /\ pc = "goto"
    /\ \E ok \in BOOLEAN :
        /\ ok => reachable
        /\ TryStep("goto", ok, "wait_image_modifier")
    /\ UNCHANGED untouched

\* Line 13: page.wait_for_selector("text=Image Modifier", timeout=10000)
WaitImageModifier ==
    /\ pc = "wait_image_modifier"
    /\ \E ok \in BOOLEAN : TryStep("wait_image_modifier", ok, "click_tab")
    /\ UNCHANGED untouched

\* Line 17: page.get_by_role("tab", name="Batch Process").click()
ClickTab ==
    /\ pc = "click_tab"
    /\ \E ok \in BOOLEAN : TryStep("click_tab", ok, "wait_batch_processing")
    /\ UNCHANGED untouched

\* Line 20: page.wait_for_selector("text=Batch Processing", state="visible")
WaitBatchProcessing ==
    /\ pc = "wait_batch_processing"
    /\ \E ok \in BOOLEAN : TryStep("wait_batch_processing", ok, "wait_file_input")
    /\ UNCHANGED untouched

\* Line 26: page.wait_for_selector("input[type='file']", state="attached")
WaitFileInput ==
    /\ pc = "wait_file_input"
    /\ \E ok \in BOOLEAN : TryStep("wait_file_input", ok, "set_input_files")
    /\ UNCHANGED untouched

\* Line 27: page.set_input_files("input[type='file']", "test_image.png")
SetInputFiles ==
    /\ pc = "set_input_files"
    /\ \E ok \in BOOLEAN :
        /\ ok => fixturePresent
        /\ TryStep("set_input_files", ok, "wait_test_image")
    /\ UNCHANGED untouched

\* Line 31: page.wait_for_selector("text=test_image", timeout=5000)
WaitTestImage ==
    /\ pc = "wait_test_image"
    /\ \E ok \in BOOLEAN : TryStep("wait_test_image", ok, "wait_image_settings")
    /\ UNCHANGED untouched

\* Line 36: page.wait_for_selector("text=Image Settings", state="visible")
WaitImageSettings ==
    /\ pc = "wait_image_settings"
    /\ \E ok \in BOOLEAN : TryStep("wait_image_settings", ok, "is_visible")
    /\ UNCHANGED untouched

\* Lines 45-46: width_input = page.locator("input[value='1']").first
\*              if width_input.is_visible():
IsVisible ==
    /\ pc = "is_visible"
    /\ \E ok \in BOOLEAN :
        /\ TryStep("is_visible", ok, AfterIsVisible(primaryVisible))
        /\ visResult' = IF ok THEN (IF primaryVisible THEN "true" ELSE "false")
                              ELSE visResult
    /\ UNCHANGED <<env, launched, pageCreated, closeCalls, stopped,
                   allResult, fills, shots, writes, pending, exitStatus>>

\* Lines 47-48: width_input.fill("100")
FillPrimary ==
    /\ pc = "fill_primary"
    /\ \E ok \in BOOLEAN :
        /\ TryStep("fill_primary", ok, AfterFillPrimary)
        /\ fills' = IF ok
                    THEN Append(fills, [target |-> "primary", index |-> 1,
                                        value |-> "100"])
                    ELSE fills
    /\ UNCHANGED <<env, launched, pageCreated, closeCalls, stopped,
                   visResult, allResult, shots, writes, pending, exitStatus>>

\* Lines 51-52, 55-56: inputs = page.locator(".space-y-1 input[type='number']").all()
\*                     if inputs: ... else: print("Could not find width input")
LocatorAll ==
    /\ pc = "locator_all"
    /\ \E ok \in BOOLEAN :
        /\ TryStep("locator_all", ok, AfterLocatorAll(Len(inputs)))
        /\ allResult' = IF ok THEN Len(inputs) ELSE allResult
    /\ UNCHANGED <<env, launched, pageCreated, closeCalls, stopped,
                   visResult, fills, shots, writes, pending, exitStatus>>

\* Lines 53-54: inputs[0].fill("100")
FillFallback ==
    /\ pc = "fill_fallback"
    /\ \E ok \in BOOLEAN :
        /\ ok => Actionable(inputs[1])
        /\ TryStep("fill_fallback", ok, "sleep")
        /\ fills' = IF ok
                    THEN Append(fills, [target |-> "fallback", index |-> 1,
                                        value |-> "100"])
                    ELSE fills
    /\ UNCHANGED <<env, launched, pageCreated, closeCalls, stopped,
                   visResult, allResult, shots, writes, pending, exitStatus>>

\* Line 59: time.sleep(1)
Sleep ==
    /\ pc = "sleep"
    /\ TryStep("sleep", TRUE, "screenshot")
    /\ UNCHANGED untouched

\* Lines 62-64: page.screenshot(path=screenshot_path); the try body ends.
Screenshot ==
    /\ pc = "screenshot"
    /\ \E ok \in BOOLEAN :
        /\ TryStep("screenshot", ok, "finally")
        /\ shots' = IF ok THEN Append(shots, ScreenshotArgs(screenshot_path))
                          ELSE shots
        /\ writes' = IF ok
                     THEN [writes EXCEPT ![screenshot_path] = @ + 1]
                     ELSE writes
    /\ UNCHANGED <<env, launched, pageCreated, closeCalls, stopped,
                   visResult, allResult, fills, pending, exitStatus>>

\* Lines 66-68: except Exception as e: print; page.screenshot(path=error.png).
\* An exception raised here is not caught: it propagates after the finally.
ExceptHandler ==
    /\ pc = "except"
    /\ \E ok \in BOOLEAN :
        /\ calls' = Append(calls, [op |-> "error_screenshot", ok |-> ok])
        /\ shots' = IF ok THEN Append(shots, ScreenshotArgs(error_path))
                          ELSE shots
        /\ writes' = IF ok
                     THEN [writes EXCEPT ![error_path] = @ + 1]
                     ELSE writes
        /\ pending' = ~ok
    /\ pc' = "finally"
    /\ UNCHANGED <<env, launched, pageCreated, closeCalls, stopped,
                   visResult, allResult, fills, exitStatus>>

\* Lines 69-70: finally: browser.close()
Finally ==
    /\ pc = "finally"
    /\ \E ok \in BOOLEAN :
        /\ calls' = Append(calls, [op |-> "close", ok |-> ok])
        /\ pending' = (pending \/ ~ok)
    /\ closeCalls' = closeCalls + 1
    /\ pc' = "with_exit"
    /\ UNCHANGED <<env, launched, pageCreated, stopped, visResult,
                   allResult, fills, shots, writes, exitStatus>>

\* Line 6: leaving  with sync_playwright() as p  (normally or by exception);
\* the context manager does not suppress the exception.
WithExit ==
    /\ pc = "with_exit"
    /\ stopped' = TRUE
    /\ pc' = "return"
    /\ UNCHANGED <<env, launched, pageCreated, closeCalls, calls, visResult,
                   allResult, fills, shots, writes, pending, exitStatus>>

\* Lines 72-73: verify_batch_tab() returns to the module level or raises
\* there; an uncaught exception ends the interpreter with status 1.
Return ==
    /\ pc = "return"
    /\ exitStatus' = IF pending THEN 1 ELSE 0
    /\ pc' = "done"
    /\ UNCHANGED <<env, launched, pageCreated, closeCalls, stopped, calls,
                   visResult, allResult, fills, shots, writes, pending>>

Next ==
    \/ Launch
    \/ NewPage
    \/ Goto
    \/ WaitImageModifier
    \/ ClickTab
    \/ WaitBatchProcessing
    \/ WaitFileInput
    \/ SetInputFiles
    \/ WaitTestImage
    \/ WaitImageSettings
    \/ IsVisible
    \/ FillPrimary
    \/ LocatorAll
    \/ FillFallback
    \/ Sleep
    \/ Screenshot
    \/ ExceptHandler
    \/ Finally
    \/ WithExit
    \/ Return

Spec == Init /\ [][Next]_vars

(***************************************************************************)
(* Properties.                                                             *)
(***************************************************************************)

Called(op) == \E i \in DOMAIN calls : calls[i].op = op
Returned(op) == \E i \in DOMAIN calls : calls[i].op = op /\ calls[i].ok
Raised(op) == \E i \in DOMAIN calls : calls[i].op = op /\ ~calls[i].ok
Count(op) == Cardinality({i \in DOMAIN calls : calls[i].op = op})

\* Position of the steps of the try body in the script.
Rank(op) ==
    CASE op = "goto" -> 1
      [] op = "wait_image_modifier" -> 2
      [] op = "click_tab" -> 3
      [] op = "wait_batch_processing" -> 4
      [] op = "wait_file_input" -> 5
      [] op = "set_input_files" -> 6
      [] op = "wait_test_image" -> 7
      [] op = "wait_image_settings" -> 8
      [] op = "is_visible" -> 9
      [] op = "fill_primary" -> 10
      [] op = "locator_all" -> 10
      [] op = "fill_fallback" -> 11
      [] op = "sleep" -> 12
      [] op = "screenshot" -> 13
      [] OTHER -> 0

IsTryStep(op) == Rank(op) > 0

\* The steps that every run reaching a later step has gone through.
Mandatory == {"goto", "wait_image_modifier", "click_tab",
              "wait_batch_processing", "wait_file_input", "set_input_files",
              "wait_test_image", "wait_image_settings", "is_visible",
              "sleep", "screenshot"}

NoRaise == \A i \in DOMAIN calls : calls[i].ok

\* C1: in every run in which the browser launched and the page was created,
\* exactly one of the two screenshot files is written, whatever each library
\* call (the two page.screenshot calls included) does.
C1_ExactlyOneScreenshot ==
    (pc = "done" /\ launched /\ pageCreated)
        => writes[screenshot_path] + writes[error_path] = 1

\* C2: no exception escapes verify_batch_tab and the exit status is 0,
\* whichever step of the run fails (steps of the try body, or the error
\* screenshot taken in the except handler).
C2_NoExceptionEscapes ==
    (pc = "done" /\ pageCreated /\ ~Raised("close"))
        => (~pending /\ exitStatus = 0)

\* C3: on every exit path, a failure of browser.new_page() included, the
\* launched browser has been closed exactly once when the run ends.
C3_ClosedExactlyOnce ==
    (pc = "done" /\ launched) => closeCalls = 1

\* C4: when no call of the run raises, verification/batch_tab_verified.png
\* is written exactly once and verification/error.png is never written.
C4_CleanRunWritesSuccessOnly ==
    (pc = "done" /\ NoRaise)
        => /\ writes["verification/batch_tab_verified.png"] = 1
           /\ writes["verification/error.png"] = 0
           /\ ~Called("error_screenshot")

C4_Witness ==
    /\ pc = "done"
    /\ NoRaise
    /\ Returned("screenshot")
    /\ writes["verification/batch_tab_verified.png"] = 1

\* C5: when page.goto or the 'Image Modifier' wait raises, the run ends with
\* verification/error.png written and no write to the success path.
C5_UnreachableWritesError ==
    (pc = "done" /\ (Raised("goto") \/ Raised("wait_image_modifier")))
        => /\ writes["verification/error.png"] >= 1
           /\ writes["verification/batch_tab_verified.png"] = 0

\* C6: the steps of the try body run in the fixed script order, each at most
\* once; after the first step that raises no later step runs, the step is
\* not retried, and the next action is the error screenshot.
C6_FixedOrderNoRetry ==
    /\ \A i, j \in DOMAIN calls :
          (i < j /\ IsTryStep(calls[i].op) /\ IsTryStep(calls[j].op))
              => /\ Rank(calls[i].op) < Rank(calls[j].op)
                 /\ calls[i].ok
    /\ \A i \in DOMAIN calls :
          IsTryStep(calls[i].op)
              => \A m \in Mandatory :
                    Rank(m) < Rank(calls[i].op) => Returned(m)
    /\ \A i \in DOMAIN calls :
          (IsTryStep(calls[i].op) /\ ~calls[i].ok)
              => IF i = Len(calls)
                 THEN pc = "except"
                 ELSE calls[i + 1].op = "error_screenshot"
    /\ Called("error_screenshot")
          => \E i \in DOMAIN calls : IsTryStep(calls[i].op) /\ ~calls[i].ok

C6_Witness ==
    /\ pc = "done"
    /\ ~fixturePresent
    /\ Raised("set_input_files")
    /\ ~Called("wait_test_image")
    /\ Count("set_input_files") = 1
    /\ Called("error_screenshot")

\* What the width-change step found: the primary locator was not visible
\* and the fallback locator matched n elements.
FallbackFound == visResult = "false" /\ allResult >= 1
NothingFound == visResult = "false" /\ allResult = 0

FallbackFill == [target |-> "fallback", index |-> 1, value |-> "100"]

\* C7 (as stated): when the primary input is not visible and the fallback
\* locator matches, the first fallback element is filled with "100" and the
\* run reaches the success screenshot rather than the error path, whatever
\* the state of that element.
C7_FallbackAlwaysSucceeds ==
    (pc = "done" /\ FallbackFound)
        => /\ fills = <<FallbackFill>>
           /\ Called("screenshot")
           /\ ~(Raised("fill_fallback") /\ Called("error_screenshot"))

\* C7 (amended): when the primary input is not visible and the fallback
\* locator matches, fill("100") is issued on the first fallback element
\* only; if that fill returns, it is the only fill and the run goes on to
\* the sleep and the success screenshot; if the element is hidden, disabled
\* or read-only the fill raises, nothing is filled, the success screenshot
\* is not taken and the run takes the error path.
C7_FallbackFillDecides ==
    (pc = "done" /\ FallbackFound)
        => /\ Count("fill_fallback") = 1
           /\ ~Called("fill_primary")
           /\ Returned("fill_fallback")
                => /\ fills = <<FallbackFill>>
                   /\ Called("sleep")
                   /\ Called("screenshot")
           /\ ~Actionable(inputs[1])
                => /\ Raised("fill_fallback")
                   /\ fills = <<>>
                   /\ ~Called("screenshot")
                   /\ Called("error_screenshot")
                   /\ writes["verification/batch_tab_verified.png"] = 0

C7_Witness ==
    /\ pc = "done"
    /\ FallbackFound
    /\ inputs[1] = "visible"
    /\ fills = <<FallbackFill>>
    /\ writes["verification/batch_tab_verified.png"] = 1

\* C8: when neither the primary nor the fallback locator resolves to an
\* element, no fill is performed, the width-change step raises nothing, and
\* the run proceeds to the sleep and the success screenshot.
C8_NothingFoundIsNotFatal ==
    NothingFound
        => /\ fills = <<>>
           /\ ~Called("fill_primary") /\ ~Called("fill_fallback")
           /\ ~Raised("is_visible") /\ ~Raised("locator_all")
           /\ pc \notin {"fill_primary", "fill_fallback"}
           /\ pc # "sleep" => Called("sleep")
           /\ pc \notin {"sleep", "screenshot"} => Called("screenshot")
           /\ Called("error_screenshot") => Raised("screenshot")
           /\ Returned("screenshot")
                => writes["verification/batch_tab_verified.png"] = 1

C8_Witness ==
    /\ pc = "done"
    /\ NothingFound
    /\ fills = <<>>
    /\ writes["verification/batch_tab_verified.png"] = 1

\* C9 (as stated): the screenshot written to
\* verification/batch_tab_verified.png is captured in full-page mode.
C9_SuccessShotFullPage ==
    \A i \in DOMAIN shots :
        shots[i].path = "verification/batch_tab_verified.png"
            => shots[i].full_page

\* C9 (amended): the screenshot written to
\* verification/batch_tab_verified.png is captured with the default
\* options, i.e. the viewport only, not the full page, in every run that
\* reaches step 11.
C9_SuccessShotViewport ==
    /\ \A i \in DOMAIN shots :
          shots[i].path = "verification/batch_tab_verified.png"
              => ~shots[i].full_page
    /\ Returned("screenshot")
          => \E i \in DOMAIN shots :
                shots[i].path = "verification/batch_tab_verified.png"

C9_Witness ==
    /\ pc = "done"
    /\ Returned("screenshot")
    /\ Len(shots) = 1
    /\ shots[1].path = "verification/batch_tab_verified.png"

\* C10: at most one fill("100") is issued per run, only after the
\* 'test_image' and 'Image Settings' waits have returned; the primary and
\* the fallback input are never both filled; the fallback locator is queried
\* only when the primary locator's is_visible() returned false.
C10_AtMostOneGuardedFill ==
    /\ Count("fill_primary") + Count("fill_fallback") <= 1
    /\ Len(fills) <= 1
    /\ \A i \in DOMAIN fills : fills[i].value = "100"
    /\ \A i \in DOMAIN calls :
          calls[i].op \in {"fill_primary", "fill_fallback"}
              => \E j, k \in 1..(i - 1) :
                    /\ calls[j].op = "wait_test_image" /\ calls[j].ok
                    /\ calls[k].op = "wait_image_settings" /\ calls[k].ok
    /\ pc \in {"fill_primary", "fill_fallback"}
          => Returned("wait_test_image") /\ Returned("wait_image_settings")
    /\ (Called("locator_all") \/ pc = "locator_all") => visResult = "false"
    /\ (Called("fill_fallback") \/ pc = "fill_fallback")
          => visResult = "false"
    /\ (Called("fill_primary") \/ pc = "fill_primary") => visResult = "true"

C10_Witness ==
    /\ pc = "done"
    /\ Len(fills) = 1
    /\ fills[1].target = "primary"
    /\ ~Called("locator_all")

====
